---- MODULE Spec2Model ----
(***************************************************************************)
(* NBFWM advisor directory extractor (src/app.py).                         *)
(*                                                                         *)
(* Strings are modelled as sequences of symbols.  A symbol is a word, a    *)
(* punctuation mark ("," or "-") or, for the fields compared by            *)
(* dedupe_rows, a single character.  Adjacent words of a text are          *)
(* separated by one blank; a "-" symbol joins its neighbours without       *)
(* blanks.  URLs are numbered 1..NumUrls, in their sort order.             *)
(*                                                                         *)
(* The site is the environment: whether a request succeeds, and the page   *)
(* it returns, is drawn when safe_get is called.  A page is what the code  *)
(* reads of it: its links, the container text of each advisor card of the  *)
(* directory page, and for a profile page the name, email, phone and       *)
(* address hint its extraction cascades yield.  team_name and the export   *)
(* are left out.  fetched, site, crawl_failed and profile_log are history  *)
(* variables: the code does not keep them.                                 *)
(***************************************************************************)
EXTENDS Integers, Sequences, FiniteSets, TLC

\* ------------------------------------------------------------------ bounds
NumUrls == 4
MaxLimit == 3
MaxProfilesCap == 1
MaxRows == 3
MaxAnchors == 1
MaxLines == 2
MaxLineLen == 3
MaxTextLen == 3

\* ----------------------------------------------------------- set helpers
Min(S) == CHOOSE x \in S : \A y \in S : x <= y

RECURSIVE sorted(_)
\* Python's sorted() on a set of URLs: ascending sequence
sorted(S) == IF S = {} THEN <<>> ELSE <<Min(S)>> \o sorted(S \ {Min(S)})

Range(s) == {s[k] : k \in DOMAIN s}

\* k in s (Python's substring test), on symbol sequences
Contains(k, s) ==
    \E j \in 0..(Len(s) - Len(k)) : SubSeq(s, j + 1, j + Len(k)) = k

\* ------------------------------------------------------- case conversion
\* str.lower() on the symbols of the model's vocabulary
lower(sym) ==
    CASE sym \in {"QC", "Qc", "qc"} -> "qc"
      [] sym \in {"ON", "On", "on"} -> "on"
      [] sym \in {"Quebec", "QUEBEC", "quebec"} -> "quebec"
      [] sym \in {"Ontario", "ontario"} -> "ontario"
      [] sym \in {"Alberta", "alberta"} -> "alberta"
      [] sym \in {"British", "british"} -> "british"
      [] sym \in {"Columbia", "columbia"} -> "columbia"
      [] sym \in {"Newfoundland", "newfoundland"} -> "newfoundland"
      [] sym \in {"Labrador", "labrador"} -> "labrador"
      [] sym \in {"Laval", "laval"} -> "laval"
      [] sym \in {"Toronto", "toronto"} -> "toronto"
      [] sym \in {"A", "a"} -> "a"
      [] sym \in {"B", "b"} -> "b"
      [] OTHER -> sym

\* str.upper() on the symbols of the model's vocabulary
upper(sym) ==
    CASE sym \in {"QC", "Qc", "qc"} -> "QC"
      [] sym \in {"ON", "On", "on"} -> "ON"
      [] sym \in {"A", "a"} -> "A"
      [] sym \in {"B", "b"} -> "B"
      [] OTHER -> sym

str_lower(s) == [k \in DOMAIN s |-> lower(s[k])]

\* ------------------------------------------------- province resolution
\* the alternatives of PROV_ABBR_RE
PROV_ABBR ==
    {"BC", "AB", "SK", "MB", "ON", "QC", "NB", "NS", "PE", "NL", "NT", "NU", "YT"}

\* FULL_PROV_MAP, in the dict's insertion order
FULL_PROV_MAP == <<
    [k |-> <<"quebec">>, v |-> "QC"],
    [k |-> <<"québec">>, v |-> "QC"],
    [k |-> <<"ontario">>, v |-> "ON"],
    [k |-> <<"alberta">>, v |-> "AB"],
    [k |-> <<"manitoba">>, v |-> "MB"],
    [k |-> <<"saskatchewan">>, v |-> "SK"],
    [k |-> <<"british", "columbia">>, v |-> "BC"],
    [k |-> <<"british", "-", "columbia">>, v |-> "BC"],
    [k |-> <<"colombie", "britannique">>, v |-> "BC"],
    [k |-> <<"colombie", "-", "britannique">>, v |-> "BC"],
    [k |-> <<"new", "brunswick">>, v |-> "NB"],
    [k |-> <<"new", "-", "brunswick">>, v |-> "NB"],
    [k |-> <<"nouveau", "brunswick">>, v |-> "NB"],
    [k |-> <<"nouveau", "-", "brunswick">>, v |-> "NB"],
    [k |-> <<"nova", "scotia">>, v |-> "NS"],
    [k |-> <<"nova", "-", "scotia">>, v |-> "NS"],
    [k |-> <<"nouvelle", "ecosse">>, v |-> "NS"],
    [k |-> <<"nouvelle", "-", "écosse">>, v |-> "NS"],
    [k |-> <<"nouvelle", "-", "ecosse">>, v |-> "NS"],
    [k |-> <<"prince", "edward", "island">>, v |-> "PE"],
    [k |-> <<"ile", "du", "prince", "edouard">>, v |-> "PE"],
    [k |-> <<"île", "du", "prince", "édouard">>, v |-> "PE"],
    [k |-> <<"île", "-", "du", "-", "prince", "-", "édouard">>, v |-> "PE"],
    [k |-> <<"newfoundland", "and", "labrador">>, v |-> "NL"],
    [k |-> <<"terre", "neuve", "et", "labrador">>, v |-> "NL"],
    [k |-> <<"terre", "-", "neuve", "-", "et", "-", "labrador">>, v |-> "NL"],
    [k |-> <<"northwest", "territories">>, v |-> "NT"],
    [k |-> <<"territoires", "du", "nord", "ouest">>, v |-> "NT"],
    [k |-> <<"territoires", "du", "nord", "-", "ouest">>, v |-> "NT"],
    [k |-> <<"nunavut">>, v |-> "NU"],
    [k |-> <<"yukon">>, v |-> "YT"] >>

\* t.replace("-", " "): the hyphen becomes the blank that separates words
replace_hyphens(t) == SelectSeq(t, LAMBDA sym : sym # "-")

\* a faulty resolver: the full names are tried before the abbreviations
extract_province_names_first(text) ==
    IF text = <<>> THEN ""
    ELSE LET t == str_lower(text)
             t_norm == replace_hyphens(t)
             hit == {j \in DOMAIN FULL_PROV_MAP :
                        \/ Contains(FULL_PROV_MAP[j].k, t)
                        \/ Contains(FULL_PROV_MAP[j].k, t_norm)}
             abbr == {j \in DOMAIN text : upper(text[j]) \in PROV_ABBR}
         IN  IF hit # {} THEN FULL_PROV_MAP[Min(hit)].v
             ELSE IF abbr # {} THEN upper(text[Min(abbr)]) ELSE ""

\* extract_province(text): abbreviation as a whole word first, then the
\* first key of FULL_PROV_MAP contained in the lower-cased text
extract_province(text) ==
    IF text = <<>> THEN ""
    ELSE LET abbr == {j \in DOMAIN text : upper(text[j]) \in PROV_ABBR}
         IN  IF abbr # {} THEN upper(text[Min(abbr)])
             ELSE LET t == str_lower(text)
                      t_norm == replace_hyphens(t)
                      hit == {j \in DOMAIN FULL_PROV_MAP :
                                 \/ Contains(FULL_PROV_MAP[j].k, t)
                                 \/ Contains(FULL_PROV_MAP[j].k, t_norm)}
                  IN  IF hit # {} THEN FULL_PROV_MAP[Min(hit)].v ELSE ""

\* PROV_NAME_PATTERN (matched with re.I): the province names a directory
\* line may end with
PROV_NAME_PATTERN == {
    <<"alberta">>, <<"british", "-", "columbia">>, <<"british", "columbia">>,
    <<"manitoba">>, <<"new", "-", "brunswick">>, <<"new", "brunswick">>,
    <<"nova", "-", "scotia">>, <<"nova", "scotia">>, <<"ontario">>,
    <<"quebec">>, <<"saskatchewan">>, <<"prince", "edward", "island">>,
    <<"newfoundland">>, <<"newfoundland", "and", "labrador">>,
    <<"northwest", "territories">>, <<"nunavut">>, <<"yukon">> }

\* position of the comma at which CITY_PROV_LINE_RE matches the line, 0 when
\* it does not match: a non-empty comma-free city, a comma, a province name
CITY_PROV_LINE_RE(line) ==
    LET commas == {j \in DOMAIN line : line[j] = ","}
    IN  IF commas = {} THEN 0
        ELSE LET c == Min(commas)
             IN  IF /\ c >= 2
                    /\ str_lower(SubSeq(line, c + 1, Len(line))) \in PROV_NAME_PATTERN
                 THEN c ELSE 0

\* ------------------------------------------------ directory location index
\* text.split("\n") with the blank lines dropped
nonblank_lines(text) == SelectSeq(text, LAMBDA ln : ln # <<>>)

\* the loop body of build_directory_location_lookup for one anchor
\* a = [href_ok, url, text]: href_ok is ADVISOR_HREF_RE.match(href), url is
\* urljoin(base, href), text is the container's text as a sequence of lines
index_anchor(lookup, a) ==
    IF ~a.href_ok THEN lookup
    ELSE LET lines == nonblank_lines(a.text)
             m == {j \in DOMAIN lines : CITY_PROV_LINE_RE(lines[j]) > 0}
             line == IF m = {} THEN <<>> ELSE lines[Min(m)]
             city == IF m = {} THEN <<>>
                     ELSE SubSeq(line, 1, CITY_PROV_LINE_RE(line) - 1)
             prov_code == IF m = {} THEN "" ELSE extract_province(line)
         IN  IF prov_code # ""
             THEN [u \in DOMAIN lookup \cup {a.url} |->
                      IF u = a.url THEN [city |-> city, province |-> prov_code]
                      ELSE lookup[u]]
             ELSE lookup

RECURSIVE index_anchors(_, _)
index_anchors(lookup, anchors) ==
    IF anchors = <<>> THEN lookup
    ELSE index_anchors(index_anchor(lookup, Head(anchors)), Tail(anchors))

\* build_directory_location_lookup(directory_html, base), on the anchors of
\* the page in document order
build_directory_location_lookup(anchors) == index_anchors(<<>>, anchors)

\* ------------------------------------------------------------ profile parser
\* parse_advisor_page(html, url, base, dir_lookup).  html carries what the
\* name, email, phone and extract_address_hint cascades find in the page.
parse_advisor_page_dirfirst(html, url, lookup) ==
    LET address_hint == html.hint
        onpage == extract_province(address_hint)
        province == IF url \in DOMAIN lookup THEN lookup[url].province ELSE onpage
        city == IF url \in DOMAIN lookup THEN lookup[url].city ELSE <<>>
    IN  [name |-> html.name, email |-> html.email, phone |-> html.phone,
         province |-> province, city |-> city,
         address_hint |-> address_hint, profile_url |-> url]

parse_advisor_page(html, url, lookup) ==
    LET address_hint == html.hint
        onpage == extract_province(address_hint)
        province == IF onpage # "" THEN onpage
                    ELSE IF url \in DOMAIN lookup THEN lookup[url].province
                    ELSE ""
        city == IF url \in DOMAIN lookup THEN lookup[url].city ELSE <<>>
    IN  [name |-> html.name, email |-> html.email, phone |-> html.phone,
         province |-> province, city |-> city,
         address_hint |-> address_hint, profile_url |-> url]

\* ------------------------------------------------------------ deduplication
email_norm(r) == str_lower(r.email)
name_norm(r) == str_lower(r.name)
\* str.replace(r"\s+", "", regex=True)
phone_norm(r) == SelectSeq(r.phone, LAMBDA sym : sym # " ")

\* the rows of df at the positions I, in their order
take(df, I) == LET idx == sorted(I) IN [k \in 1..Len(idx) |-> df[idx[k]]]

\* df[I].drop_duplicates(subset=col, keep="first"): col is the subset
\* column(s), one value per row of df
drop_duplicates(df, I, col) ==
    take(df, {j \in I : ~\E h \in I : h < j /\ col[h] = col[j]})

\* a faulty dedupe_rows: the emails are compared as written, case and all
dedupe_rows_raw_email(df) ==
    LET email_col == [j \in DOMAIN df |-> df[j].email]
        pair_col == [j \in DOMAIN df |-> <<name_norm(df[j]), phone_norm(df[j])>>]
        has_email == {j \in DOMAIN df : email_col[j] # <<>>}
        df_email == drop_duplicates(df, has_email, email_col)
        df_no_email == drop_duplicates(df, DOMAIN df \ has_email, pair_col)
    IN  df_email \o df_no_email

\* a faulty dedupe_rows: the second frame of the concat is the whole df
dedupe_rows_concat_all(df) ==
    LET email_col == [j \in DOMAIN df |-> email_norm(df[j])]
        has_email == {j \in DOMAIN df : email_col[j] # <<>>}
        df_email == drop_duplicates(df, has_email, email_col)
    IN  df_email \o df

dedupe_rows(df) ==
    LET email_col == [j \in DOMAIN df |-> email_norm(df[j])]
        pair_col == [j \in DOMAIN df |-> <<name_norm(df[j]), phone_norm(df[j])>>]
        has_email == {j \in DOMAIN df : email_col[j] # <<>>}
        df_email == drop_duplicates(df, has_email, email_col)
        df_no_email == drop_duplicates(df, DOMAIN df \ has_email, pair_col)
    IN  df_email \o df_no_email

\* ------------------------------------------------------------------ the run
VARIABLES
    pc,                      \* position in the script's main section
    deep_crawl, crawl_page_limit, qc_only, city_contains, max_profiles,
    dir_lookup,              \* profile url -> [city, province]
    advisor_urls,            \* the set of profile urls collected so far
    q, seen_pages, internal_pages_checked,
    errors,
    url_list,                \* advisor_urls once sorted and capped (line 549)
    i, rows, kept, row,
    metrics,                 \* the four st.metric widgets as last written
    df,                      \* the deduplicated table
    fetched,                 \* history: pages requested by the crawl, in order
    site,                    \* history: the links each crawled page returned
    crawl_failed,            \* history: failed requests of the crawl
    profile_log,             \* history: the profile loop's requests, [url, ok]
    frame, deduped, deduped_twice,   \* dedupe_rows on its own: df, f(df), f(f(df))
    directory_anchors, lookup,       \* build_directory_location_lookup on its own
    text, province                   \* extract_province on its own: text, f(text)

config == <<deep_crawl, crawl_page_limit, qc_only, city_contains, max_profiles>>
crawl_vars == <<q, seen_pages, internal_pages_checked, fetched, site, crawl_failed>>
loop_vars == <<url_list, i, rows, kept, row, metrics, df, profile_log>>
unit_vars == <<frame, deduped, deduped_twice, directory_anchors, lookup, text, province>>
vars == <<pc, config, dir_lookup, advisor_urls, crawl_vars, errors, loop_vars, unit_vars>>

Urls == 1..NumUrls
\* urljoin(base_url, seed_path)
directory_url == 1
\* ADVISOR_HREF_RE: the even urls are the profile pages
is_advisor_href(u) == u % 2 = 0
\* path.startswith("/advisor/") and path.endswith(".html"): every page of
\* the site but the directory page /advisor.html itself
is_internal_html_page(u) == u # directory_url

\* extract_advisor_urls_from_html(html, base)
extract_advisor_urls_from_html(html) ==
    sorted({u \in html.hrefs : is_advisor_href(u)})
\* extract_internal_html_pages_from_html(html, page_url, base)
extract_internal_html_pages_from_html(html) ==
    sorted({u \in html.hrefs : is_internal_html_page(u)})

\* container texts of the directory page's advisor cards
DirTexts == { <<>>,
              << <<"Laval", ",", "Quebec">> >>,
              << <<"Toronto", ",", "Ontario">> >> }
\* what extract_address_hint finds in a profile page
HintTexts == { <<>>, <<"Laval", "QC">>, <<"Toronto", ",", "Ontario">> }
CityFilters == { <<>>, <<"laval">> }

\* the directory page: its links, and the container text of each advisor card
SeedPages ==
    UNION { { [hrefs |-> h, cards |-> c] :
                c \in [{u \in h : is_advisor_href(u)} -> DirTexts] } :
            h \in SUBSET (Urls \ {directory_url}) }
\* a page met by the crawl: its links
CrawlPages == { [hrefs |-> h] : h \in SUBSET (Urls \ {directory_url}) }
\* a profile page: what the field cascades find in it
ProfilePages ==
    [name : {<<"J">>}, email : {<<>>, <<"a">>}, phone : {<<>>}, hint : HintTexts]

\* the advisor anchors of the directory page, in document order
seed_anchors(html) ==
    LET us == sorted(DOMAIN html.cards)
    IN  [k \in 1..Len(us) |->
            [href_ok |-> TRUE, url |-> us[k], text |-> html.cards[us[k]]]]

NoRow == [name |-> <<>>, email |-> <<>>, phone |-> <<>>, province |-> "",
          city |-> <<>>, address_hint |-> <<>>, profile_url |-> 0]

\* the script's variables before the main section has run
Unstarted ==
    /\ dir_lookup = <<>>
    /\ advisor_urls = {}
    /\ q = <<>> /\ seen_pages = {} /\ internal_pages_checked = 0
    /\ errors = 0
    /\ url_list = <<>> /\ i = 0 /\ rows = <<>> /\ kept = 0 /\ row = NoRow
    /\ metrics = [links |-> 0, processed |-> 0, kept |-> 0, errors |-> 0]
    /\ df = <<>>
    /\ fetched = <<>> /\ site = <<>> /\ crawl_failed = 0 /\ profile_log = <<>>
    /\ frame = <<>> /\ deduped = <<>> /\ deduped_twice = <<>>
    /\ directory_anchors = <<>> /\ lookup = <<>>
    /\ text = <<>> /\ province = ""

\* the widgets at their defaults (lines 456-468)
Defaults ==
    /\ deep_crawl = FALSE /\ crawl_page_limit = 1
    /\ qc_only = FALSE /\ city_contains = <<>> /\ max_profiles = 0

Init ==
    /\ pc = "start"
    /\ deep_crawl \in BOOLEAN
    /\ crawl_page_limit \in 1..MaxLimit
    /\ qc_only \in BOOLEAN
    /\ city_contains \in CityFilters
    /\ max_profiles \in 0..MaxProfilesCap
    /\ Unstarted

\* lines 509-514: the seed request fails, st.stop()
SeedFail ==
    /\ pc = "start"
    /\ pc' = "stopped"
    /\ UNCHANGED <<unit_vars, config, dir_lookup, advisor_urls, crawl_vars, errors, loop_vars>>

\* lines 509-527: the seed page is loaded, the index and the first links built
SeedLoad ==
    /\ pc = "start"
    /\ \E seed_html \in SeedPages :
          /\ dir_lookup' = build_directory_location_lookup(seed_anchors(seed_html))
          /\ advisor_urls' = Range(extract_advisor_urls_from_html(seed_html))
    /\ IF deep_crawl
       THEN /\ q' = <<directory_url>>
            /\ pc' = "crawl"
       ELSE /\ q' = q
            /\ pc' = "collect"
    /\ UNCHANGED <<unit_vars, config, seen_pages, internal_pages_checked, fetched, site,
                   crawl_failed, errors, loop_vars>>

\* lines 529-532: the dequeued page was already seen
CrawlSeen ==
    /\ pc = "crawl"
    /\ q # <<>> /\ internal_pages_checked < crawl_page_limit
    /\ Head(q) \in seen_pages
    /\ q' = Tail(q)
    /\ UNCHANGED <<unit_vars, pc, config, dir_lookup, advisor_urls, seen_pages,
                   internal_pages_checked, fetched, site, crawl_failed, errors,
                   loop_vars>>

\* a faulty handler: the failed request ends the crawl
CrawlFetchFail_aborts ==
    /\ pc = "crawl"
    /\ q # <<>> /\ internal_pages_checked < crawl_page_limit
    /\ Head(q) \notin seen_pages
    /\ q' = Tail(q)
    /\ seen_pages' = seen_pages \cup {Head(q)}
    /\ errors' = errors + 1
    /\ fetched' = Append(fetched, Head(q))
    /\ crawl_failed' = crawl_failed + 1
    /\ pc' = "collect"
    /\ UNCHANGED <<unit_vars, config, dir_lookup, advisor_urls, internal_pages_checked,
                   site, loop_vars>>

\* a faulty handler: the page is marked as seen only once its request has
\* succeeded
CrawlFetchFail_unmarked ==
    /\ pc = "crawl"
    /\ q # <<>> /\ internal_pages_checked < crawl_page_limit
    /\ Head(q) \notin seen_pages
    /\ q' = Tail(q)
    /\ errors' = errors + 1
    /\ fetched' = Append(fetched, Head(q))
    /\ crawl_failed' = crawl_failed + 1
    /\ UNCHANGED <<unit_vars, pc, config, dir_lookup, advisor_urls, seen_pages,
                   internal_pages_checked, site, loop_vars>>

\* lines 529-539: the page's request fails
CrawlFetchFail ==
    /\ pc = "crawl"
    /\ q # <<>> /\ internal_pages_checked < crawl_page_limit
    /\ Head(q) \notin seen_pages
    /\ q' = Tail(q)
    /\ seen_pages' = seen_pages \cup {Head(q)}
    /\ errors' = errors + 1
    /\ fetched' = Append(fetched, Head(q))
    /\ crawl_failed' = crawl_failed + 1
    /\ UNCHANGED <<unit_vars, pc, config, dir_lookup, advisor_urls, internal_pages_checked,
                   site, loop_vars>>

\* the pages a crawled page adds to the queue (lines 543-545)
enqueued(html, seen) ==
    SelectSeq(extract_internal_html_pages_from_html(html), LAMBDA nxt : nxt \notin seen)

\* a faulty handler: the new pages go to the front of the queue
CrawlFetchOk_lifo ==
    /\ pc = "crawl"
    /\ q # <<>> /\ internal_pages_checked < crawl_page_limit
    /\ Head(q) \notin seen_pages
    /\ seen_pages' = seen_pages \cup {Head(q)}
    /\ \E html \in CrawlPages :
          /\ advisor_urls' = advisor_urls \cup Range(extract_advisor_urls_from_html(html))
          /\ q' = enqueued(html, seen_pages') \o Tail(q)
          /\ site' = [p \in DOMAIN site \cup {Head(q)} |->
                         IF p = Head(q) THEN html ELSE site[p]]
    /\ internal_pages_checked' = internal_pages_checked + 1
    /\ fetched' = Append(fetched, Head(q))
    /\ UNCHANGED <<unit_vars, pc, config, dir_lookup, crawl_failed, errors, loop_vars>>

\* lines 529-547: the page is fetched, its links collected and enqueued
CrawlFetchOk ==
    /\ pc = "crawl"
    /\ q # <<>> /\ internal_pages_checked < crawl_page_limit
    /\ Head(q) \notin seen_pages
    /\ seen_pages' = seen_pages \cup {Head(q)}
    /\ \E html \in CrawlPages :
          /\ advisor_urls' = advisor_urls \cup Range(extract_advisor_urls_from_html(html))
          /\ q' = Tail(q) \o enqueued(html, seen_pages')
          /\ site' = [p \in DOMAIN site \cup {Head(q)} |->
                         IF p = Head(q) THEN html ELSE site[p]]
    /\ internal_pages_checked' = internal_pages_checked + 1
    /\ fetched' = Append(fetched, Head(q))
    /\ UNCHANGED <<unit_vars, pc, config, dir_lookup, crawl_failed, errors, loop_vars>>

\* line 529: the loop condition fails
CrawlExit ==
    /\ pc = "crawl"
    /\ ~(q # <<>> /\ internal_pages_checked < crawl_page_limit)
    /\ pc' = "collect"
    /\ UNCHANGED <<unit_vars, config, dir_lookup, advisor_urls, crawl_vars, errors, loop_vars>>

\* lines 549-562: sort the links, report their number, stop when there are
\* none, cap the list
Collect ==
    /\ pc = "collect"
    /\ metrics' = [metrics EXCEPT !.links = Cardinality(advisor_urls)]
    /\ IF advisor_urls = {}
       THEN /\ pc' = "nolinks"
            /\ url_list' = <<>>
       ELSE /\ pc' = "profiles"
            /\ url_list' = IF max_profiles > 0
                           THEN SubSeq(sorted(advisor_urls), 1,
                                       IF max_profiles < Cardinality(advisor_urls)
                                       THEN max_profiles
                                       ELSE Cardinality(advisor_urls))
                           ELSE sorted(advisor_urls)
    /\ UNCHANGED <<unit_vars, config, dir_lookup, advisor_urls, crawl_vars, errors, i, rows,
                   kept, row, df, profile_log>>

\* lines 598-601: the widgets are rewritten from the counters
metrics_update(m, n, k, e) == [m EXCEPT !.processed = n, !.kept = k, !.errors = e]

\* a faulty province filter: rows without a province are let through
province_ok_or_blank(r) == ~qc_only \/ r.province \in {"QC", ""}

\* lines 572-574: the province filter lets the row through
province_ok(r) == ~qc_only \/ r.province = "QC"

\* lines 577-581: the city filter lets the row through
city_ok(r) ==
    \/ city_contains = <<>>
    \/ Contains(str_lower(city_contains), str_lower(r.city \o r.address_hint))

\* a faulty handler: the failed request is not caught and ends the run
ProfileFetchFail_uncaught ==
    /\ pc = "profiles" /\ i < Len(url_list)
    /\ i' = i + 1
    /\ errors' = errors + 1
    /\ profile_log' = Append(profile_log, [url |-> url_list[i'], ok |-> FALSE])
    /\ pc' = "stopped"
    /\ UNCHANGED <<unit_vars, config, dir_lookup, advisor_urls, crawl_vars, url_list,
                   rows, kept, row, df, metrics>>

\* lines 566-569, 595-601: the profile's request fails
ProfileFetchFail ==
    /\ pc = "profiles" /\ i < Len(url_list)
    /\ i' = i + 1
    /\ errors' = errors + 1
    /\ profile_log' = Append(profile_log, [url |-> url_list[i'], ok |-> FALSE])
    /\ metrics' = metrics_update(metrics, i', kept, errors')
    /\ UNCHANGED <<unit_vars, pc, config, dir_lookup, advisor_urls, crawl_vars, url_list,
                   rows, kept, row, df>>

\* lines 566-601: the profile is fetched and parsed, then filtered or kept
ProfileFetchOk ==
    /\ pc = "profiles" /\ i < Len(url_list)
    /\ i' = i + 1
    /\ \E html \in ProfilePages :
          row' = parse_advisor_page(html, url_list[i'], dir_lookup)
    /\ IF ~province_ok(row') \/ ~city_ok(row')
       THEN \* continue: the rest of the loop body is skipped
            UNCHANGED <<rows, kept, metrics>>
       ELSE /\ rows' = Append(rows, row')
            /\ kept' = kept + 1
            /\ metrics' = metrics_update(metrics, i', kept', errors)
    /\ profile_log' = Append(profile_log, [url |-> url_list[i'], ok |-> TRUE])
    /\ UNCHANGED <<unit_vars, pc, config, dir_lookup, advisor_urls, crawl_vars, errors,
                   url_list, df>>

\* lines 603-610: the loop is over; no rows is "no matches", else dedupe
Finish ==
    /\ pc = "profiles" /\ i = Len(url_list)
    /\ IF rows = <<>>
       THEN pc' = "nomatch" /\ df' = df
       ELSE pc' = "done" /\ df' = dedupe_rows(rows)
    /\ UNCHANGED <<unit_vars, config, dir_lookup, advisor_urls, crawl_vars, errors, url_list,
                   i, rows, kept, row, metrics, profile_log>>

Next ==
    \/ SeedFail
    \/ SeedLoad
    \/ CrawlSeen
    \/ CrawlFetchFail
    \/ CrawlFetchOk
    \/ CrawlExit
    \/ Collect
    \/ ProfileFetchFail
    \/ ProfileFetchOk
    \/ Finish

Spec == Init /\ [][Next]_vars

\* The deep crawl on its own: deep crawl switched on, the other options at
\* the defaults of their widgets (lines 456-461), up to the sorted link list.
InitCrawl ==
    /\ Init
    /\ deep_crawl /\ ~qc_only /\ city_contains = <<>> /\ max_profiles = 0

NextCrawl ==
    \/ SeedFail
    \/ SeedLoad
    \/ CrawlSeen
    \/ CrawlFetchFail
    \/ CrawlFetchOk
    \/ CrawlExit

SpecCrawl == InitCrawl /\ [][NextCrawl]_vars

\* the crawl from a directory page whose advisor cards carry no location
\* line: the location index, which the crawl never reads, stays empty
SeedLoadPlain == SeedLoad /\ dir_lookup' = <<>>

NextCrawlPlain ==
    \/ SeedFail
    \/ SeedLoadPlain
    \/ CrawlSeen
    \/ CrawlFetchFail
    \/ CrawlFetchOk
    \/ CrawlExit

\* the script runs on: a statement that can be executed is executed
SpecCrawlFair == InitCrawl /\ [][NextCrawlPlain]_vars /\ WF_vars(NextCrawlPlain)

\* The run with the deep crawl at its default, off (line 465): the seed page,
\* the profile loop and the final table, under every filter setting.
InitLoop ==
    /\ Init
    /\ ~deep_crawl /\ crawl_page_limit = 1

NextLoop ==
    \/ SeedFail
    \/ SeedLoad
    \/ Collect
    \/ ProfileFetchFail
    \/ ProfileFetchOk
    \/ Finish

SpecLoop == InitLoop /\ [][NextLoop]_vars

\* ------------------------------------------------- dedupe_rows on its own
\* the name, email and phone fields of the rows given to dedupe_rows
FrameRows ==
    [name : {<<"A">>, <<"a">>, <<"B">>},
     email : {<<>>, <<"a">>, <<"A">>},
     phone : {<<"5">>, <<"5", " ">>, <<"6">>}]

InitDedupe == pc = "frame" /\ Defaults /\ Unstarted

\* a row is added to the data frame
FrameAppend ==
    /\ pc = "frame" /\ Len(frame) < MaxRows
    /\ \E r \in FrameRows : frame' = Append(frame, r)
    /\ UNCHANGED <<pc, config, dir_lookup, advisor_urls, crawl_vars, errors,
                   loop_vars, deduped, deduped_twice, directory_anchors, lookup,
                   text, province>>

\* dedupe_rows(df)
Dedupe ==
    /\ pc = "frame"
    /\ deduped' = dedupe_rows(frame)
    /\ pc' = "deduped"
    /\ UNCHANGED <<config, dir_lookup, advisor_urls, crawl_vars, errors,
                   loop_vars, frame, deduped_twice, directory_anchors, lookup,
                   text, province>>

\* dedupe_rows on its own result
DedupeAgain ==
    /\ pc = "deduped"
    /\ deduped_twice' = dedupe_rows(deduped)
    /\ pc' = "twice"
    /\ UNCHANGED <<config, dir_lookup, advisor_urls, crawl_vars, errors,
                   loop_vars, frame, deduped, directory_anchors, lookup,
                   text, province>>

NextDedupe ==
    \/ FrameAppend
    \/ Dedupe
    \/ DedupeAgain

SpecDedupe == InitDedupe /\ [][NextDedupe]_vars

\* ------------------------------ build_directory_location_lookup on its own
IndexVocab == {"Laval", "on", ",", "Quebec", "Newfoundland"}
IndexLines == UNION { [1..n -> IndexVocab] : n \in 1..MaxLineLen }
IndexTexts == UNION { [1..n -> IndexLines] : n \in 0..MaxLines }

InitIndex == pc = "anchors" /\ Defaults /\ Unstarted

\* the directory page gets one more anchor
AnchorAppend ==
    /\ pc = "anchors" /\ Len(directory_anchors) < MaxAnchors
    /\ \E ok \in BOOLEAN, u \in {v \in Urls : is_advisor_href(v)}, t \in IndexTexts :
          directory_anchors' =
              Append(directory_anchors, [href_ok |-> ok, url |-> u, text |-> t])
    /\ UNCHANGED <<pc, config, dir_lookup, advisor_urls, crawl_vars, errors,
                   loop_vars, frame, deduped, deduped_twice, lookup,
                   text, province>>

\* build_directory_location_lookup(directory_html, base)
BuildIndex ==
    /\ pc = "anchors"
    /\ lookup' = build_directory_location_lookup(directory_anchors)
    /\ pc' = "indexed"
    /\ UNCHANGED <<config, dir_lookup, advisor_urls, crawl_vars, errors,
                   loop_vars, frame, deduped, deduped_twice, directory_anchors,
                   text, province>>

NextIndex ==
    \/ AnchorAppend
    \/ BuildIndex

SpecIndex == InitIndex /\ [][NextIndex]_vars

\* ------------------------------------------------ extract_province on its own
\* words a text is made of: codes in upper, lower and mixed case, the
\* English word "on", full province names, a city, a hyphen
ProvinceVocab == {"QC", "Qc", "on", "NB", "Ontario", "quebec", "Laval", "-"}

InitProvince == pc = "text" /\ Defaults /\ Unstarted

\* the text gets one more word
TextAppend ==
    /\ pc = "text" /\ Len(text) < MaxTextLen
    /\ \E sym \in ProvinceVocab : text' = Append(text, sym)
    /\ UNCHANGED <<pc, config, dir_lookup, advisor_urls, crawl_vars, errors,
                   loop_vars, frame, deduped, deduped_twice, directory_anchors,
                   lookup, province>>

\* extract_province(text)
ExtractProvince ==
    /\ pc = "text"
    /\ province' = extract_province(text)
    /\ pc' = "resolved"
    /\ UNCHANGED <<config, dir_lookup, advisor_urls, crawl_vars, errors,
                   loop_vars, frame, deduped, deduped_twice, directory_anchors,
                   lookup, text>>

NextProvince ==
    \/ TextAppend
    \/ ExtractProvince

SpecProvince == InitProvince /\ [][NextProvince]_vars

\* ================================================================ properties

\* ------------------------------------------------------------- deep crawl
\* the links of a crawled page, as the crawl saw them; none for a page the
\* crawl never fetched
links_of(p) ==
    IF p \in DOMAIN site
    THEN {u \in site[p].hrefs : is_internal_html_page(u)}
    ELSE {}

RECURSIVE bfs_order(_, _)
\* textbook breadth-first order: a page is marked when it is first queued,
\* the links of a page are taken in url order
bfs_order(queue, marked) ==
    IF queue = <<>> THEN <<>>
    ELSE LET new == sorted(links_of(Head(queue)) \ marked)
         IN  <<Head(queue)>> \o bfs_order(Tail(queue) \o new, marked \cup Range(new))

\* C1: the crawl requests at most crawl_page_limit pages, whatever the links
\* and whichever requests fail.
C1_FetchesWithinLimit == Len(fetched) <= crawl_page_limit

\* C4: a failed request of the crawl adds one to errors, adds no advisor link
\* and no page to the queue, leaves the crawl running, and the crawl does not
\* end while pages are queued and the limit is not reached.
C4_CrawlFailureIsLocal ==
    /\ [][crawl_failed' # crawl_failed =>
             /\ crawl_failed' = crawl_failed + 1
             /\ errors' = errors + 1
             /\ advisor_urls' = advisor_urls
             /\ q' = Tail(q)
             /\ Head(q) \notin DOMAIN site'
             /\ pc' = "crawl"]_vars
    /\ [](pc = "collect" /\ deep_crawl =>
             q = <<>> \/ internal_pages_checked >= crawl_page_limit)

\* a request failed, and a page queued behind it was fetched afterwards
C4_Witness ==
    \E j, k \in DOMAIN fetched :
        /\ j < k
        /\ fetched[j] \notin DOMAIN site
        /\ fetched[k] \in DOMAIN site
        /\ errors = 1

\* C12: the deep crawl always terminates, whichever requests succeed or fail;
\* when it is over the queue is empty or internal_pages_checked has reached
\* crawl_page_limit; and the crawl requests no page twice.
C12_CrawlTerminates ==
    /\ <>(pc \in {"stopped", "collect"})
    /\ [](pc = "collect" =>
             q = <<>> \/ internal_pages_checked >= crawl_page_limit)
    /\ [](\A j, k \in DOMAIN fetched : fetched[j] = fetched[k] => j = k)

\* the crawl is over with the queue empty before the limit: page 3 was
\* queued twice (linked from pages 1 and 2), its request failed, and its
\* second copy was dropped unfetched
C12_Witness ==
    /\ pc = "collect"
    /\ q = <<>> /\ internal_pages_checked < crawl_page_limit
    /\ fetched = <<1, 2, 3>> /\ DOMAIN site = {1, 2}
    /\ 3 \in site[1].hrefs /\ 3 \in site[2].hrefs
    /\ crawl_failed = 1

\* C5: when no request fails, the crawl has fetched, once it is over, exactly
\* the first min(limit, reachable pages) pages of the breadth-first order
\* from the directory page, each once, and errors is still 0.
C5_BreadthFirstPrefix ==
    (pc = "collect" /\ deep_crawl /\ crawl_failed = 0) =>
        LET order == bfs_order(<<directory_url>>, {directory_url})
            n == IF crawl_page_limit < Len(order) THEN crawl_page_limit ELSE Len(order)
        IN  /\ fetched = SubSeq(order, 1, n)
            /\ errors = 0

\* limit 2 on the chain directory -> 2 -> 3: 1 and 2 fetched, 3 never
C5_Witness ==
    /\ pc = "collect" /\ crawl_failed = 0
    /\ crawl_page_limit = 2
    /\ fetched = <<1, 2>>
    /\ links_of(1) = {2} /\ links_of(2) = {3}
    /\ errors = 0

\* ----------------------------------------------------------- profile loop
failed_profiles == {k \in DOMAIN profile_log : ~profile_log[k].ok}
log_urls == [k \in DOMAIN profile_log |-> profile_log[k].url]

\* C2: every failed profile request adds exactly one to errors and leaves no
\* record, and the loop goes on: the requests made are the urls of the capped
\* sorted list in order, all of them once the run is over; only the seed
\* page's failure stops a run.
C2_ProfileFailureIsLocal ==
    /\ errors = crawl_failed + Cardinality(failed_profiles)
    /\ \A k \in failed_profiles : \A j \in DOMAIN rows :
           rows[j].profile_url # profile_log[k].url
    /\ pc = "profiles" => log_urls = SubSeq(url_list, 1, i)
    /\ pc \in {"done", "nomatch"} => log_urls = url_list
    /\ pc = "stopped" => profile_log = <<>>

\* a profile request failed and a later profile was fetched, parsed and kept
C2_Witness ==
    \E j, k \in DOMAIN profile_log :
        /\ j < k
        /\ ~profile_log[j].ok /\ profile_log[k].ok
        /\ errors = 1
        /\ \E n \in DOMAIN rows : rows[n].profile_url = profile_log[k].url

\* C3: once the run is over the widgets show the true counters: processed is
\* the number of profile urls handled, kept the number of rows that passed
\* the filters, errors the number of failed requests of the crawl and of the
\* profile loop.
C3_ReportedCountersAccurate ==
    pc \in {"done", "nomatch"} =>
        /\ metrics.processed = Len(url_list)
        /\ metrics.kept = Len(rows)
        /\ metrics.errors = crawl_failed + Cardinality(failed_profiles)

\* C8: with the province filter on, every accumulated row and every row of
\* the final table has province QC, and a parsed row with province QC that
\* passes the city filter is the row last appended.
C8_ProvinceFilter ==
    qc_only =>
        /\ \A k \in DOMAIN rows : rows[k].province = "QC"
        /\ \A k \in DOMAIN df : df[k].province = "QC"
        /\ (row.province = "QC" /\ city_ok(row)) =>
               (rows # <<>> /\ rows[Len(rows)] = row)

\* two profiles fetched under the filter: the first, of QC, is the only row
\* of the final table; the second, of another province, was dropped
C8_Witness ==
    /\ qc_only /\ pc = "done"
    /\ Len(profile_log) = 2 /\ failed_profiles = {}
    /\ row.profile_url = url_list[2] /\ row.province = "ON"
    /\ Len(df) = 1 /\ df[1].province = "QC" /\ df[1].profile_url = url_list[1]

\* the province and city the claim gives a parsed row: on-page first, the
\* directory entry only as a fallback; the city from the directory entry only
resolved_on_page_first(r) ==
    LET on_page == extract_province(r.address_hint)
        has_entry == r.profile_url \in DOMAIN dir_lookup
    IN  /\ on_page # "" => r.province = on_page
        /\ (on_page = "" /\ has_entry) =>
               r.province = dir_lookup[r.profile_url].province
        /\ (on_page = "" /\ ~has_entry) => r.province = ""
        /\ has_entry => r.city = dir_lookup[r.profile_url].city
        /\ ~has_entry => r.city = <<>>

\* C9: every parsed row has its province resolved on-page first, from the
\* directory index only when the page gives none, and its city from the
\* directory index only.
C9_ProvinceOnPageFirst ==
    /\ row.profile_url # 0 => resolved_on_page_first(row)
    /\ \A k \in DOMAIN rows : resolved_on_page_first(rows[k])

\* the page says QC, the directory entry of the same profile says Toronto,
\* Ontario: the row is of QC, its city Toronto
C9_Witness ==
    /\ row.profile_url \in DOMAIN dir_lookup
    /\ dir_lookup[row.profile_url] = [city |-> <<"Toronto">>, province |-> "ON"]
    /\ extract_province(row.address_hint) = "QC"
    /\ row.province = "QC" /\ row.city = <<"Toronto">>

\* ----------------------------------------------------------- deduplication
\* the deduplication key of the claim: the lower-cased email when the record
\* has one, else the lower-cased name with the phone less its white space
dedupe_key(r) ==
    IF r.email # <<>>
    THEN <<"email", str_lower(r.email)>>
    ELSE <<"name, phone", str_lower(r.name), SelectSeq(r.phone, LAMBDA c : c # " ")>>

first_of_key(t, j) == \A h \in 1..(j - 1) : dedupe_key(t[h]) # dedupe_key(t[j])

\* C6: dedupe_rows returns one record for each deduplication key of its
\* input, the first record met with that key.
C6_FirstOfEachKey ==
    pc \in {"deduped", "twice"} =>
        /\ Range(deduped) = {frame[j] : j \in {h \in DOMAIN frame : first_of_key(frame, h)}}
        /\ Len(deduped) = Cardinality({dedupe_key(frame[j]) : j \in DOMAIN frame})

\* same email but for its case under two names: only the first survives; a
\* record without email is kept under its own key
C6_Witness ==
    /\ pc = "deduped" /\ Len(frame) = 3
    /\ frame[1] = [name |-> <<"A">>, email |-> <<"a">>, phone |-> <<"5">>]
    /\ frame[2] = [name |-> <<"B">>, email |-> <<"A">>, phone |-> <<"5">>]
    /\ frame[3] = [name |-> <<"B">>, email |-> <<>>, phone |-> <<"6">>]
    /\ deduped = <<frame[1], frame[3]>>

\* C7: dedupe_rows on its own result returns that result, same records, same
\* order, the records with an email before those without.
C7_DedupeIdempotent ==
    pc = "twice" =>
        /\ deduped_twice = deduped
        /\ \A j, k \in DOMAIN deduped :
               (deduped[j].email = <<>> /\ deduped[k].email # <<>>) => k < j

\* a duplicate was dropped and the order changed by the first pass; the
\* second pass changes nothing
C7_Witness ==
    /\ pc = "twice" /\ Len(frame) = 3
    /\ frame[1].email = <<>> /\ frame[2].email # <<>>
    /\ deduped = <<frame[2], frame[1]>>
    /\ deduped_twice = deduped

\* ------------------------------------------------ directory location index
\* the code of each province name of the enumeration
province_name_code(n) ==
    CASE n = <<"alberta">> -> "AB"
      [] n \in {<<"british", "-", "columbia">>, <<"british", "columbia">>} -> "BC"
      [] n = <<"manitoba">> -> "MB"
      [] n \in {<<"new", "-", "brunswick">>, <<"new", "brunswick">>} -> "NB"
      [] n \in {<<"nova", "-", "scotia">>, <<"nova", "scotia">>} -> "NS"
      [] n = <<"ontario">> -> "ON"
      [] n = <<"quebec">> -> "QC"
      [] n = <<"saskatchewan">> -> "SK"
      [] n = <<"prince", "edward", "island">> -> "PE"
      [] n \in {<<"newfoundland">>, <<"newfoundland", "and", "labrador">>} -> "NL"
      [] n = <<"northwest", "territories">> -> "NT"
      [] n = <<"nunavut">> -> "NU"
      [] n = <<"yukon">> -> "YT"

\* C10: the index has an entry for an anchor's url exactly when the anchor
\* is an advisor link whose container text has a "<city>, <province name>"
\* line; the entry's city is the city of the first such line, its province
\* the code of that line's province name.
C10_EntryIffCityProvinceLine ==
    pc = "indexed" =>
        \A k \in DOMAIN directory_anchors :
            LET a == directory_anchors[k]
                lines == nonblank_lines(a.text)
                m == {j \in DOMAIN lines : CITY_PROV_LINE_RE(lines[j]) > 0}
                line == lines[Min(m)]
                c == CITY_PROV_LINE_RE(line)
            IN  /\ a.url \in DOMAIN lookup <=> (a.href_ok /\ m # {})
                /\ (a.href_ok /\ m # {}) =>
                       lookup[a.url] =
                           [city |-> SubSeq(line, 1, c - 1),
                            province |->
                                province_name_code(str_lower(SubSeq(line, c + 1, Len(line))))]

\* ------------------------------------------------- province resolution
\* the positions of the text's standalone province codes, in either case
standalone_codes(t) == {j \in DOMAIN t : upper(t[j]) \in PROV_ABBR}

\* C11 as stated: for every text that contains a standalone 2-letter
\* province code, extract_province returns that code, whatever else the
\* text contains.
C11_AnyStandaloneCode ==
    pc = "resolved" =>
        \A j \in standalone_codes(text) : province = upper(text[j])

\* C11 amended: for every text that contains a standalone 2-letter province
\* code, extract_province returns the leftmost such code of the text, in
\* upper case, whatever else the text contains (full province names
\* before or after it, other words, hyphens).
C11_LeftmostStandaloneCode ==
    pc = "resolved" =>
        \A j \in standalone_codes(text) :
            (\A h \in 1..(j - 1) : h \notin standalone_codes(text))
                => province = upper(text[j])

\* a text that names Ontario in full, then gives the code Qc in mixed
\* case, then the word "on": the code of the result is QC
C11_Witness ==
    /\ pc = "resolved"
    /\ text = <<"Ontario", "Qc", "on">>
    /\ province = "QC"
====
